---- MODULE Spec2Model ----
(***************************************************************************)
(* Incident de-duplication: the HTTP endpoint get_solution                 *)
(* (app/functionality.py) and the batch importer process_excel             *)
(* (app/main.py), with the two retrying clients of the external service    *)
(* (check_incident_similarity, generate_solution), the scan find_solution  *)
(* and the keyword classifier calculate_priority.                          *)
(*                                                                         *)
(* A text is a sequence of one-character strings.  An Optional[str] is a   *)
(* sequence of at most one text: None is <<>>, the string t is <<t>>.      *)
(***************************************************************************)
EXTENDS Integers, Sequences, FiniteSets, TLC

\* ---------------------------------------------------------------- bounds
\* largest number of incidents resolved in one run of the model
MaxServed == 2
\* largest number of rows of one imported spreadsheet
MaxBatch == 2
\* largest table a concurrent request still appends to
MaxRows == 3

\* ------------------------------------------------------ program constants
\* a retry loop that allows one attempt too many
MAX_RETRIES_4 == 3 + 1
MAX_RETRIES == 3
SLEEP_BETWEEN_RETRIES == 2

\* ------------------------------------------------------------------ texts
LowerAlpha ==
  <<"a","b","c","d","e","f","g","h","i","j","k","l","m",
    "n","o","p","q","r","s","t","u","v","w","x","y","z">>
UpperAlpha ==
  <<"A","B","C","D","E","F","G","H","I","J","K","L","M",
    "N","O","P","Q","R","S","T","U","V","W","X","Y","Z">>

\* str.strip() removes these from both ends
Whitespace == {" ", "\t", "\n", "\r"}

ToLower(c) ==
  IF \E i \in 1..26 : UpperAlpha[i] = c
    THEN LowerAlpha[CHOOSE i \in 1..26 : UpperAlpha[i] = c]
    ELSE c

ToUpper(c) ==
  IF \E i \in 1..26 : LowerAlpha[i] = c
    THEN UpperAlpha[CHOOSE i \in 1..26 : LowerAlpha[i] = c]
    ELSE c

\* str.lower()
Lower(t) == [i \in 1..Len(t) |-> ToLower(t[i])]

\* str.upper()
Upper(t) == [i \in 1..Len(t) |-> ToUpper(t[i])]

\* a strip() that forgets to trim
StripNone(t) == t

\* str.strip(): drop the leading and the trailing whitespace
Strip(t) ==
  LET keep == {i \in 1..Len(t) : t[i] \notin Whitespace}
  IN  IF keep = {} THEN <<>>
      ELSE LET lo == CHOOSE i \in keep : \A j \in keep : i <= j
               hi == CHOOSE i \in keep : \A j \in keep : j <= i
           IN  SubSeq(t, lo, hi)

\* Python's  word in text  on strings: word is a contiguous substring
Contains(text, word) ==
  \E i \in 1..(Len(text) - Len(word) + 1) :
     SubSeq(text, i, i + Len(word) - 1) = word

\* f"{a} {b}"
Join(a, b) == a \o <<" ">> \o b

\* ---------------------------------------------------- calculate_priority
Keywords5 ==
  { <<"c","r","i","t","i","c","a","l">>, <<"o","u","t","a","g","e">>,
    <<"f","a","i","l","u","r","e">>, <<"b","r","e","a","c","h">>,
    <<"s","e","c","u","r","i","t","y">> }
Keywords4 ==
  { <<"e","r","r","o","r">>, <<"c","r","a","s","h">>,
    <<"s","l","o","w">>, <<"t","i","m","e","o","u","t">> }
Keywords3 ==
  { <<"b","u","g">>, <<"i","s","s","u","e">>,
    <<"p","r","o","b","l","e","m">> }
Keywords2 ==
  { <<"r","e","q","u","e","s","t">>, <<"a","c","c","e","s","s">>,
    <<"m","i","n","o","r">> }

AnyWordIn(words, desc) == \E word \in words : Contains(desc, word)

\* a classifier that tests the tiers from the lowest to the highest
calculate_priority_lowest_first(description, detailed_description) ==
  LET desc == Lower(Join(description, detailed_description))
  IN  IF AnyWordIn(Keywords2, desc) THEN 2
      ELSE IF AnyWordIn(Keywords3, desc) THEN 3
      ELSE IF AnyWordIn(Keywords4, desc) THEN 4
      ELSE IF AnyWordIn(Keywords5, desc) THEN 5
      ELSE 1

calculate_priority(description, detailed_description) ==
  LET desc == Lower(Join(description, detailed_description))
  IN  IF AnyWordIn(Keywords5, desc) THEN 5
      ELSE IF AnyWordIn(Keywords4, desc) THEN 4
      ELSE IF AnyWordIn(Keywords3, desc) THEN 3
      ELSE IF AnyWordIn(Keywords2, desc) THEN 2
      ELSE 1

\* ------------------------------------------------------------ Optional[str]
None == <<>>
Some(t) == <<t>>

\* Python truthiness of an Optional[str]: None and "" are falsy
Truthy(v) == v # None /\ v[1] # <<>>

\* the literal returned by generate_solution when every attempt failed
NoSolutionText ==
  <<"N","o"," ","s","o","l","u","t","i","o","n"," ","c","o","u","l","d",
    " ","b","e"," ","g","e","n","e","r","a","t","e","d",".">>

\* the reply check_incident_similarity accepts, after strip().upper()
YES == <<"Y","E","S">>

\* ------------------------------------------------ inputs of the environment
\* new incidents (description, detailed description) a caller submits; the
\* text of an incident decides its priority and nothing else, the verdicts
\* and the solutions being the replies of the service
Incidents ==
  { [description |-> <<"O","u","t","a","g","e">>,
     detailed_description |-> <<"b","u","g">>] }

\* reply texts of the service to the similarity prompt
SimilarityReplies ==
  { <<"Y","E","S">>, <<" ","y","e","s","\n">>, <<"N","O">>,
    <<"Y","E","S",".">>, <<>> }

\* reply texts of the service to the resolution prompt
SolutionReplies ==
  { <<" ","o","k","\n">>, <<" ","\n">> }

\* rows the incidents table may hold before the program starts; priorities
\* 0 and 99 and the duplicated priority-5 pair are the rows app/test.py adds
Row(desc, det, sol, pri) ==
  [desc |-> desc, det_desc |-> det, sol |-> sol, priority |-> pri]

RowLow == Row(<<"l","o","w">>, <<"x">>, <<"i","g","n">>, 0)
RowHigh == Row(<<"h","i">>, <<"x">>, <<"f","i","x">>, 99)
RowDupA == Row(<<"d","u","p">>, <<"x">>, <<"s","o","l">>, 5)
RowDupB == Row(<<"d","u","p">>, <<"x">>, <<"a","l","t">>, 5)

InitialStores ==
  { <<>>, <<RowLow>>, <<RowLow, RowHigh>>, <<RowDupA, RowDupB>> }

\* ------------------------------------------------------------------ state
VARIABLES
  store,               \* rows of table incidents, in insertion order
  pc,                  \* position of the (single, synchronous) program
  caller,              \* "http" (get_solution) or "batch" (process_excel)
  rows,                \* process_excel: rows of df not yet processed
  new_records,         \* process_excel: records to insert at the end
  existing_incidents,  \* the list the scan iterates
  db_empty,            \* len(existing_incidents) == 0 at load time
  incident,            \* the new incident being resolved
  idx,                 \* find_solution: number of candidates already passed
  attempt,             \* retry loop variable of the running client call
  existing_solution,   \* value returned by find_solution
  solution,            \* the solution decided for the incident
  priority,            \* calculate_priority of the incident
  outcome,             \* "none", "reused" or "generated" (the info log)
  events,              \* service calls, log records and sleeps of the
                       \* running (or last) client call, in order
  client,              \* client the events belong to
  snapshot,            \* existing_incidents as passed to this request
  oracle_calls,        \* 0-based positions check_incident_similarity
                       \* was called for in this request, in order
  verdicts,            \* values check_incident_similarity returned
  gen_calls,           \* calls of generate_solution in this request
  last_reply,          \* reply text of the last successful service call
  served               \* incidents resolved since the program started

vars ==
  << store, pc, caller, rows, new_records, existing_incidents, db_empty,
     incident, idx, attempt, existing_solution, solution, priority,
     outcome, events, client, snapshot, oracle_calls, verdicts, gen_calls,
     last_reply, served >>

\* variables of one resolution request that a new request resets
RequestReset(inc, ex) ==
  /\ incident' = inc
  /\ snapshot' = ex
  /\ idx' = 0
  /\ attempt' = 0
  /\ existing_solution' = None
  /\ solution' = <<>>
  /\ priority' = 0
  /\ outcome' = "none"
  /\ events' = <<>>
  /\ client' = "none"
  /\ oracle_calls' = <<>>
  /\ verdicts' = <<>>
  /\ gen_calls' = 0
  /\ last_reply' = None

Init ==
  /\ store \in InitialStores
  /\ pc = "idle"
  /\ caller = "none"
  /\ rows = <<>>
  /\ new_records = <<>>
  /\ existing_incidents = <<>>
  /\ db_empty = TRUE
  /\ incident = CHOOSE inc \in Incidents : TRUE
  /\ idx = 0
  /\ attempt = 0
  /\ existing_solution = None
  /\ solution = <<>>
  /\ priority = 0
  /\ outcome = "none"
  /\ events = <<>>
  /\ client = "none"
  /\ snapshot = <<>>
  /\ oracle_calls = <<>>
  /\ verdicts = <<>>
  /\ gen_calls = 0
  /\ last_reply = None
  /\ served = 0

\* ------------------------------------------------------ the incident store
\* SELECT ... ORDER BY Priority DESC: every order of the rows that is
\* non-increasing in priority (SQL leaves the order of ties open)
load_existing_incidents(st) ==
  { [i \in 1..Len(st) |-> st[p[i]]] :
      p \in { q \in Permutations(1..Len(st)) :
                \A i \in 1..(Len(st) - 1) :
                   st[q[i]].priority >= st[q[i + 1]].priority } }

\* db_empty = len(existing_incidents) == 0
DbEmptyNever(ex) == FALSE
DbEmpty(ex) == Len(ex) = 0

\* batches process_excel may read: 1..MaxBatch rows
RECURSIVE Batches(_)
Batches(n) ==
  IF n = 0 THEN {<<>>}
  ELSE LET shorter == Batches(n - 1)
       IN  shorter \cup { <<inc>> \o b : inc \in Incidents,
                           b \in {c \in shorter : Len(c) = n - 1} }

\* ---------------------------------------------------------- get_solution
\* functionality.py 59-64: load the snapshot, test db_empty
HttpRequest(inc, ex) ==
  /\ pc = "idle"
  /\ served < MaxServed
  /\ ex \in load_existing_incidents(store)
  /\ caller' = "http"
  /\ existing_incidents' = ex
  /\ db_empty' = DbEmpty(ex)
  /\ pc' = IF DbEmpty(ex) THEN "generate_call" ELSE "scan"
  /\ RequestReset(inc, ex)
  /\ UNCHANGED <<store, rows, new_records, served>>

\* a save that stores the priority of the candidate whose solution it reuses
SaveIncidentCandidatePriority ==
  /\ pc = "persist"
  /\ caller = "http"
  /\ LET p == IF outcome = "reused"
                THEN existing_incidents[idx + 1].priority
                ELSE calculate_priority(incident.description,
                                        incident.detailed_description)
     IN  /\ priority' = p
         /\ store' = Append(store, Row(incident.description,
                                       incident.detailed_description,
                                       solution, p))
  /\ pc' = "idle"
  /\ served' = served + 1
  /\ UNCHANGED <<caller, rows, new_records, existing_incidents, db_empty,
                 incident, idx, attempt, existing_solution, solution,
                 outcome, events, client, snapshot, oracle_calls, verdicts,
                 gen_calls, last_reply>>

\* functionality.py 80-85: priority, save_incident, return
SaveIncident ==
  /\ pc = "persist"
  /\ caller = "http"
  /\ LET p == calculate_priority(incident.description,
                                 incident.detailed_description)
     IN  /\ priority' = p
         /\ store' = Append(store, Row(incident.description,
                                       incident.detailed_description,
                                       solution, p))
  /\ pc' = "idle"
  /\ served' = served + 1
  /\ UNCHANGED <<caller, rows, new_records, existing_incidents, db_empty,
                 incident, idx, attempt, existing_solution, solution,
                 outcome, events, client, snapshot, oracle_calls, verdicts,
                 gen_calls, last_reply>>

\* --------------------------------------------------------- process_excel
\* main.py 131-145: read the sheet, load the incidents once
BatchStart(df, ex) ==
  /\ pc = "idle"
  /\ df # <<>>
  /\ served + Len(df) <= MaxServed
  /\ ex \in load_existing_incidents(store)
  /\ caller' = "batch"
  /\ rows' = df
  /\ new_records' = <<>>
  /\ existing_incidents' = ex
  /\ db_empty' = DbEmpty(ex)
  /\ pc' = "row"
  /\ RequestReset(incident, ex)
  /\ UNCHANGED <<store, served>>

\* main.py 147-162: next row of df, test db_empty
BatchRow ==
  /\ pc = "row"
  /\ rows # <<>>
  /\ rows' = Tail(rows)
  /\ pc' = IF db_empty THEN "generate_call" ELSE "scan"
  /\ RequestReset(Head(rows), existing_incidents)
  /\ UNCHANGED <<store, caller, new_records, existing_incidents, db_empty,
                 served>>

\* a loop that never adds the resolved incident to the in-memory list
AppendRecordNoSync ==
  /\ pc = "persist"
  /\ caller = "batch"
  /\ LET p == calculate_priority(incident.description,
                                 incident.detailed_description)
         rec == Row(incident.description, incident.detailed_description,
                    solution, p)
     IN  /\ priority' = p
         /\ new_records' = Append(new_records, rec)
  /\ pc' = "row"
  /\ served' = served + 1
  /\ UNCHANGED <<store, caller, rows, existing_incidents, db_empty,
                 incident, idx, attempt, existing_solution, solution,
                 outcome, events, client, snapshot, oracle_calls, verdicts,
                 gen_calls, last_reply>>

\* main.py 170-178: priority, new_records.append, keep memory in sync
AppendRecord ==
  /\ pc = "persist"
  /\ caller = "batch"
  /\ LET p == calculate_priority(incident.description,
                                 incident.detailed_description)
         rec == Row(incident.description, incident.detailed_description,
                    solution, p)
     IN  /\ priority' = p
         /\ new_records' = Append(new_records, rec)
         /\ existing_incidents' =
              IF ~db_empty THEN Append(existing_incidents, rec)
              ELSE existing_incidents
  /\ pc' = "row"
  /\ served' = served + 1
  /\ UNCHANGED <<store, caller, rows, db_empty, incident, idx, attempt,
                 existing_solution, solution, outcome, events, client,
                 snapshot, oracle_calls, verdicts, gen_calls,
                 last_reply>>

\* main.py 180-188: executemany and commit, after the last row
BatchCommit ==
  /\ pc = "row"
  /\ rows = <<>>
  /\ store' = store \o new_records
  /\ pc' = "idle"
  /\ UNCHANGED <<caller, rows, new_records, existing_incidents, db_empty,
                 incident, idx, attempt, existing_solution, solution,
                 priority, outcome, events, client, snapshot, oracle_calls,
                 verdicts, gen_calls, last_reply, served>>

\* --------------------------------------------------------- find_solution
\* a loop that reads the table again before every comparison
CallSimilarityReload ==
  /\ pc = "scan"
  /\ idx < Len(existing_incidents)
  /\ pc' = "similarity"
  /\ client' = "oracle"
  /\ events' = <<>>
  /\ attempt' = 0
  /\ last_reply' = None
  /\ oracle_calls' = Append(oracle_calls, idx)
  /\ existing_incidents' \in load_existing_incidents(store)
  /\ UNCHANGED <<store, caller, rows, new_records, db_empty, incident, idx,
                 existing_solution, solution, priority, outcome, snapshot,
                 verdicts, gen_calls, served>>

\* main.py 100-101: the loop takes the next candidate and calls
\* check_incident_similarity for it
CallSimilarity ==
  /\ pc = "scan"
  /\ idx < Len(existing_incidents)
  /\ pc' = "similarity"
  /\ client' = "oracle"
  /\ events' = <<>>
  /\ attempt' = 0
  /\ last_reply' = None
  /\ oracle_calls' = Append(oracle_calls, idx)
  /\ UNCHANGED <<store, caller, rows, new_records, existing_incidents,
                 db_empty, incident, idx, existing_solution, solution,
                 priority, outcome, snapshot, verdicts, gen_calls,
                 served>>

\* main.py 104: the loop ran out of candidates, return None
ScanExhausted ==
  /\ pc = "scan"
  /\ idx >= Len(existing_incidents)
  /\ existing_solution' = None
  /\ pc' = "decide"
  /\ UNCHANGED <<store, caller, rows, new_records, existing_incidents,
                 db_empty, incident, idx, attempt, solution, priority,
                 outcome, events, client, snapshot, oracle_calls, verdicts,
                 gen_calls, last_reply, served>>

\* a loop body that remembers a match but keeps scanning
AfterSimilarityNoReturn(v) ==
  /\ verdicts' = Append(verdicts, v)
  /\ existing_solution' =
       IF v THEN Some(existing_incidents[idx + 1].sol) ELSE existing_solution
  /\ idx' = idx + 1
  /\ pc' = "scan"

\* main.py 101-103: the loop body after check_incident_similarity returned
\* v: return the candidate's solution on True, else go on
AfterSimilarity(v) ==
  /\ verdicts' = Append(verdicts, v)
  /\ IF v
       THEN /\ existing_solution' = Some(existing_incidents[idx + 1].sol)
            /\ idx' = idx
            /\ pc' = "decide"
       ELSE /\ existing_solution' = existing_solution
            /\ idx' = idx + 1
            /\ pc' = "scan"

\* --------------------------------------------- check_incident_similarity
\* a comparison that forgets upper()
IsYesCaseSensitive(content) == Strip(content) = YES

\* main.py 88-89: result = content.strip().upper(); result == "YES"
IsYes(content) == Upper(Strip(content)) = YES

\* main.py 79-89: an attempt that gets a reply returns at once
SimilarityReply(content) ==
  /\ pc = "similarity"
  /\ attempt < MAX_RETRIES
  /\ events' = Append(events, "call_ok")
  /\ last_reply' = Some(content)
  /\ AfterSimilarity(IsYes(content))
  /\ UNCHANGED <<store, caller, rows, new_records, existing_incidents,
                 db_empty, incident, attempt, solution, priority, outcome,
                 client, snapshot, oracle_calls, gen_calls, served>>

\* main.py 90-92: an attempt that raises logs a warning and sleeps
SimilarityFailure ==
  /\ pc = "similarity"
  /\ attempt < MAX_RETRIES
  /\ events' = events \o <<"call_fail", "WARNING", "sleep">>
  /\ attempt' = attempt + 1
  /\ UNCHANGED <<store, pc, caller, rows, new_records, existing_incidents,
                 db_empty, incident, idx, existing_solution, solution,
                 priority, outcome, client, snapshot, oracle_calls, verdicts,
                 gen_calls, last_reply, served>>

\* a retry loop that answers True when it gives up
SimilarityExhaustedOpen ==
  /\ pc = "similarity"
  /\ attempt >= MAX_RETRIES
  /\ events' = Append(events, "ERROR")
  /\ AfterSimilarity(TRUE)
  /\ UNCHANGED <<store, caller, rows, new_records, existing_incidents,
                 db_empty, incident, attempt, solution, priority, outcome,
                 client, snapshot, oracle_calls, gen_calls,
                 last_reply, served>>

\* a retry loop whose exhaustion ends the whole scan without a match
SimilarityExhaustedAbort ==
  /\ pc = "similarity"
  /\ attempt >= MAX_RETRIES
  /\ events' = Append(events, "ERROR")
  /\ verdicts' = Append(verdicts, FALSE)
  /\ existing_solution' = None
  /\ pc' = "decide"
  /\ UNCHANGED <<store, caller, rows, new_records, existing_incidents,
                 db_empty, incident, idx, attempt, solution, priority,
                 outcome, client, snapshot, oracle_calls, gen_calls,
                 last_reply, served>>

\* main.py 93-94: every attempt failed: log an error, return False
SimilarityExhausted ==
  /\ pc = "similarity"
  /\ attempt >= MAX_RETRIES
  /\ events' = Append(events, "ERROR")
  /\ AfterSimilarity(FALSE)
  /\ UNCHANGED <<store, caller, rows, new_records, existing_incidents,
                 db_empty, incident, attempt, solution, priority, outcome,
                 client, snapshot, oracle_calls, gen_calls,
                 last_reply, served>>

\* ------------------------------------- reuse or generate (both callers)
\* functionality.py 72-77, main.py 163-168:  if existing_solution:
Decide ==
  /\ pc = "decide"
  /\ IF Truthy(existing_solution)
       THEN /\ solution' = existing_solution[1]
            /\ outcome' = "reused"
            /\ pc' = "persist"
       ELSE /\ pc' = "generate_call"
            /\ UNCHANGED <<solution, outcome>>
  /\ UNCHANGED <<store, caller, rows, new_records, existing_incidents,
                 db_empty, incident, idx, attempt, existing_solution,
                 priority, events, client, snapshot, oracle_calls, verdicts,
                 gen_calls, last_reply, served>>

\* ----------------------------------------------------- generate_solution
\* main.py 107-114: the call of generate_solution, before its first attempt
CallGenerate ==
  /\ pc = "generate_call"
  /\ pc' = "generate"
  /\ client' = "generator"
  /\ events' = <<>>
  /\ attempt' = 0
  /\ last_reply' = None
  /\ gen_calls' = gen_calls + 1
  /\ UNCHANGED <<store, caller, rows, new_records, existing_incidents,
                 db_empty, incident, idx, existing_solution, solution,
                 priority, outcome, snapshot, oracle_calls, verdicts, served>>

\* main.py 115-124: an attempt that gets a reply returns it stripped
GenerateReply(content) ==
  /\ pc = "generate"
  /\ attempt < MAX_RETRIES
  /\ events' = Append(events, "call_ok")
  /\ last_reply' = Some(content)
  /\ solution' = Strip(content)
  /\ outcome' = "generated"
  /\ pc' = "persist"
  /\ UNCHANGED <<store, caller, rows, new_records, existing_incidents,
                 db_empty, incident, idx, attempt, existing_solution,
                 priority, client, snapshot, oracle_calls, verdicts,
                 gen_calls, served>>

\* main.py 125-127: an attempt that raises logs a warning and sleeps
GenerateFailure ==
  /\ pc = "generate"
  /\ attempt < MAX_RETRIES
  /\ events' = events \o <<"call_fail", "WARNING", "sleep">>
  /\ attempt' = attempt + 1
  /\ UNCHANGED <<store, pc, caller, rows, new_records, existing_incidents,
                 db_empty, incident, idx, existing_solution, solution,
                 priority, outcome, client, snapshot, oracle_calls, verdicts,
                 gen_calls, last_reply, served>>

\* main.py 128: every attempt failed: return the literal, log nothing
GenerateExhausted ==
  /\ pc = "generate"
  /\ attempt >= MAX_RETRIES
  /\ solution' = NoSolutionText
  /\ outcome' = "generated"
  /\ pc' = "persist"
  /\ UNCHANGED <<store, caller, rows, new_records, existing_incidents,
                 db_empty, incident, idx, attempt, existing_solution,
                 priority, events, client, snapshot, oracle_calls, verdicts,
                 gen_calls, last_reply, served>>

\* ------------------------------------------------------- specifications
\* a caller starts a request
Start ==
  \/ \E inc \in Incidents, ex \in load_existing_incidents(store) :
        HttpRequest(inc, ex)
  \/ \E df \in Batches(MaxBatch), ex \in load_existing_incidents(store) :
        BatchStart(df, ex)

\* the synchronous code of a started request runs on
Step ==
  \/ SaveIncident
  \/ BatchRow
  \/ AppendRecord
  \/ BatchCommit
  \/ CallSimilarity
  \/ ScanExhausted
  \/ \E content \in SimilarityReplies : SimilarityReply(content)
  \/ SimilarityFailure
  \/ SimilarityExhausted
  \/ Decide
  \/ CallGenerate
  \/ \E content \in SolutionReplies : GenerateReply(content)
  \/ GenerateFailure
  \/ GenerateExhausted

Next == Start \/ Step

Spec == Init /\ [][Next]_vars

\* the first invocation of a caller after the program started
FirstStart == caller = "none" /\ Start

FirstNext == FirstStart \/ Step

\* one invocation of a caller on each initial store; a started request is
\* never suspended for ever: every call of the service returns or raises
\* and every sleep ends
FairSpec == Init /\ [][FirstNext]_vars /\ WF_vars(Step)

\* solutions another request may have decided for its incident
OtherSolutions == {Strip(content) : content \in SolutionReplies}

\* functionality.py 35-54, 83: another request, served by another worker
\* thread while this one is running, reaches its save_incident; the table
\* is all the two requests share
ConcurrentSave(inc, sol) ==
  /\ pc \in {"scan", "similarity", "decide", "generate_call", "generate",
              "persist"}
  /\ Len(store) < MaxRows
  /\ store' = Append(store,
                     Row(inc.description, inc.detailed_description, sol,
                         calculate_priority(inc.description,
                                            inc.detailed_description)))
  /\ UNCHANGED <<pc, caller, rows, new_records, existing_incidents, db_empty,
                 incident, idx, attempt, existing_solution, solution,
                 priority, outcome, events, client, snapshot, oracle_calls,
                 verdicts, gen_calls, last_reply, served>>

Interference ==
  \E inc \in Incidents, sol \in OtherSolutions : ConcurrentSave(inc, sol)

ConcNext == FirstStart \/ Step \/ Interference

\* one invocation of a caller while other requests append to the table
ConcSpec == Init /\ [][ConcNext]_vars

\* ------------------------------------------- calculate_priority on its own
\* texts for the two fields of calculate_priority, each with the level of
\* the highest tier one of whose keywords it contains (1: none)
ClassifyWords ==
  { [text |-> <<"O","u","t","a","g","e">>, level |-> 5],
    [text |-> <<"b","r","e","a","c","h","e","s">>, level |-> 5],
    [text |-> <<"c","r","a","s","h">>, level |-> 4],
    [text |-> <<"T","i","m","e","O","u","t">>, level |-> 4],
    [text |-> <<"d","e","b","u","g">>, level |-> 3],
    [text |-> <<"I","S","S","U","E">>, level |-> 3],
    [text |-> <<"a","c","c","e","s","s","o","r","y">>, level |-> 2],
    [text |-> <<"m","i","n","o","r">>, level |-> 2],
    [text |-> <<"v","p","n">>, level |-> 1],
    [text |-> <<"o","u","t">>, level |-> 1],
    [text |-> <<"a","g","e">>, level |-> 1],
    [text |-> <<>>, level |-> 1] }

ClassifyInputs ==
  { [description |-> a.text, detailed_description |-> b.text] :
      a \in ClassifyWords, b \in ClassifyWords }

\* a caller is about to classify an incident
ClassifyInit ==
  /\ store = <<>>
  /\ pc = "classify"
  /\ caller = "none"
  /\ rows = <<>>
  /\ new_records = <<>>
  /\ existing_incidents = <<>>
  /\ db_empty = TRUE
  /\ incident \in ClassifyInputs
  /\ idx = 0
  /\ attempt = 0
  /\ existing_solution = None
  /\ solution = <<>>
  /\ priority = 0
  /\ outcome = "none"
  /\ events = <<>>
  /\ client = "none"
  /\ snapshot = <<>>
  /\ oracle_calls = <<>>
  /\ verdicts = <<>>
  /\ gen_calls = 0
  /\ last_reply = None
  /\ served = 0

\* main.py 49-59: priority = calculate_priority(desc, det_desc)
ClassifyPriority ==
  /\ pc = "classify"
  /\ priority' = calculate_priority(incident.description,
                                    incident.detailed_description)
  /\ pc' = "classified"
  /\ UNCHANGED <<store, caller, rows, new_records, existing_incidents,
                 db_empty, incident, idx, attempt, existing_solution,
                 solution, outcome, events, client, snapshot, oracle_calls,
                 verdicts, gen_calls, last_reply, served>>

ClassifyNext == ClassifyPriority

ClassifySpec == ClassifyInit /\ [][ClassifyNext]_vars

TypeOK ==
  /\ pc \in {"idle", "row", "scan", "similarity", "decide",
              "generate_call", "generate", "persist", "classify",
              "classified"}
  /\ served \in 0..MaxServed
  /\ attempt \in 0..MAX_RETRIES

\* ============================================================== properties
\* the request has decided its solution (one of the two info logs is written)
Resolved == outcome # "none"

\* the request is between its start and its decision
InRequest ==
  pc \in {"scan", "similarity", "decide", "generate_call", "generate"}

\* the decided solution has been handed to the store (HTTP: inserted and
\* returned; batch: appended to the records of the final insert)
Persisted ==
  /\ Resolved
  /\ \/ pc = "idle" /\ caller = "http"
     \/ pc = "row" /\ caller = "batch" /\ new_records # <<>>

PersistedSolution ==
  IF caller = "http" THEN store[Len(store)].sol
  ELSE new_records[Len(new_records)].sol

\* the last call of check_incident_similarity has returned
OracleReturned ==
  /\ client = "oracle"
  /\ Len(oracle_calls) > 0
  /\ Len(verdicts) = Len(oracle_calls)

\* the last call of generate_solution has returned
GeneratorReturned == client = "generator" /\ pc # "generate"

Count(ev, kinds) == Cardinality({i \in 1..Len(ev) : ev[i] \in kinds})

ServiceCalls(ev) == Count(ev, {"call_ok", "call_fail"})

\* positions 0..k-1, in order
FirstPositions(k) == [j \in 1..k |-> j - 1]

SomeTrueVerdict == \E i \in 1..Len(verdicts) : verdicts[i]

FirstTrueVerdict ==
  CHOOSE i \in 1..Len(verdicts) :
     verdicts[i] /\ \A j \in 1..(i - 1) : ~verdicts[j]

\* t is raw without its leading and trailing whitespace
IsTrimOf(t, raw) ==
  /\ t = <<>> \/ (t[1] \notin Whitespace /\ t[Len(t)] \notin Whitespace)
  /\ \E lo \in 1..(Len(raw) + 1) :
        /\ lo + Len(t) - 1 <= Len(raw)
        /\ t = SubSeq(raw, lo, lo + Len(t) - 1)
        /\ \A i \in 1..Len(raw) :
             (i < lo \/ i > lo + Len(t) - 1) => raw[i] \in Whitespace

\* every service call of a client call but the last one failed
OnlyLastCallMaySucceed(ev) ==
  \A i \in 1..Len(ev) : \A j \in (i + 1)..Len(ev) :
     (ev[i] \in {"call_ok", "call_fail"} /\ ev[j] \in {"call_ok", "call_fail"})
        => ev[i] = "call_fail"

\* C1: whenever check_incident_similarity returned True for a candidate of
\* the request, generate_solution is never called in that request, and the
\* request ends reused with the stored solution of the first such candidate
\* as the solution decided and persisted, whatever that stored solution is.
C1_TrueVerdictIsReused ==
  SomeTrueVerdict =>
    /\ gen_calls = 0
    /\ pc \notin {"generate_call", "generate"}
    /\ Resolved =>
         /\ outcome = "reused"
         /\ solution = snapshot[FirstTrueVerdict].sol
    /\ Persisted => PersistedSolution = snapshot[FirstTrueVerdict].sol

\* C2: the calls of check_incident_similarity of a request are for
\* positions 0, 1, 2, ... in order, and once a call returned True at
\* position i no further call is made: exactly i+1 calls, for 0..i.
C2_ShortCircuit ==
  /\ oracle_calls = FirstPositions(Len(oracle_calls))
  /\ Len(oracle_calls) <= Len(snapshot)
  /\ SomeTrueVerdict =>
       /\ FirstTrueVerdict = Len(verdicts)
       /\ oracle_calls = FirstPositions(FirstTrueVerdict)

\* a request whose first candidate matched while a second one was waiting
C2_Witness ==
  /\ Persisted
  /\ Len(snapshot) = 2
  /\ verdicts = <<TRUE>>
  /\ oracle_calls = <<0>>
  /\ outcome = "reused"

\* C3: a request on an empty snapshot never enters the scan and never
\* calls check_incident_similarity; it calls generate_solution exactly
\* once and ends generated.
C3_EmptySnapshotGenerates ==
  (snapshot = <<>> /\ (InRequest \/ Resolved)) =>
    /\ pc \notin {"scan", "similarity", "decide"}
    /\ oracle_calls = <<>>
    /\ gen_calls = (IF pc = "generate_call" THEN 0 ELSE 1)
    /\ Resolved => outcome = "generated"

C3_Witness ==
  /\ snapshot = <<>>
  /\ Persisted
  /\ gen_calls = 1
  /\ oracle_calls = <<>>
  /\ outcome = "generated"

\* C4: when no call of check_incident_similarity of a request on a
\* non-empty snapshot of n entries returned True, generate_solution is
\* called only after n calls for positions 0..n-1 in order, it is called
\* exactly once, and the request ends generated with its output.
C4_NoMatchGenerates ==
  (snapshot # <<>> /\ ~SomeTrueVerdict
     /\ (Resolved \/ pc \in {"generate_call", "generate"})) =>
    /\ oracle_calls = FirstPositions(Len(snapshot))
    /\ Len(verdicts) = Len(snapshot)
    /\ gen_calls = (IF pc = "generate_call" THEN 0 ELSE 1)
    /\ Resolved =>
         /\ outcome = "generated"
         /\ client = "generator"
         /\ IF last_reply = None THEN solution = NoSolutionText
            ELSE IsTrimOf(solution, last_reply[1])

\* a request that asked about both of two candidates and then generated
C4_Witness ==
  /\ Persisted
  /\ Len(snapshot) = 2
  /\ verdicts = <<FALSE, FALSE>>
  /\ oracle_calls = <<0, 1>>
  /\ gen_calls = 1
  /\ outcome = "generated"

\* C5: one call of check_incident_similarity makes at most 3 service
\* calls, each one after the first only when the one before failed, and
\* returns False when all 3 failed.
C5_OracleRetries ==
  client = "oracle" =>
    /\ ServiceCalls(events) <= 3
    /\ OnlyLastCallMaySucceed(events)
    /\ (OracleReturned /\ Count(events, {"call_ok"}) = 0) =>
         /\ Count(events, {"call_fail"}) = 3
         /\ verdicts[Len(verdicts)] = FALSE

\* a call of check_incident_similarity that failed three times and the scan
\* went on
C5_Witness ==
  /\ OracleReturned
  /\ Count(events, {"call_fail"}) = 3
  /\ verdicts[Len(verdicts)] = FALSE
  /\ pc = "scan"

\* C6: one call of generate_solution makes at most 3 service calls,
\* returns the reply of the first successful one without its surrounding
\* whitespace and makes no call after it, and returns the literal
\* "No solution could be generated." when all 3 failed.
C6_GeneratorRetries ==
  client = "generator" =>
    /\ ServiceCalls(events) <= 3
    /\ OnlyLastCallMaySucceed(events)
    /\ GeneratorReturned =>
         IF Count(events, {"call_ok"}) > 0
           THEN /\ last_reply # None
                /\ IsTrimOf(solution, last_reply[1])
           ELSE /\ Count(events, {"call_fail"}) = 3
                /\ solution = NoSolutionText

\* a call of generate_solution that failed once and then got a reply with
\* whitespace around it
C6_Witness ==
  /\ GeneratorReturned
  /\ events = <<"call_fail", "WARNING", "sleep", "call_ok">>
  /\ last_reply = Some(<<" ","o","k","\n">>)
  /\ solution = <<"o","k">>

\* C7: in a call of either client every failed service call logs one
\* warning; a call that returned after all its service calls failed has
\* logged exactly one error; a call that got a reply has logged none.
C7_WarningsAndOneError ==
  /\ Count(events, {"WARNING"}) = Count(events, {"call_fail"})
  /\ (OracleReturned \/ GeneratorReturned) =>
       Count(events, {"ERROR"}) =
         (IF Count(events, {"call_ok"}) = 0 THEN 1 ELSE 0)

\* C8: a call of either client sleeps at most twice, and when it has
\* returned every sleep was followed by another service call.
C8_SleepsOnlyBetweenAttempts ==
  /\ Count(events, {"sleep"}) <= 2
  /\ (OracleReturned \/ GeneratorReturned) =>
       \A i \in 1..Len(events) :
          events[i] = "sleep" =>
            \E j \in (i + 1)..Len(events) :
               events[j] \in {"call_ok", "call_fail"}

\* the replies that are YES up to case and surrounding whitespace
YesReplies == { <<"Y","E","S">>, <<" ","y","e","s","\n">> }

\* C9: a request ends reused only with the solution of the candidate of
\* its last call of check_incident_similarity, and only when the service
\* replied YES (up to case and surrounding whitespace) in that call.
C9_ReuseOnlyOnYes ==
  outcome = "reused" =>
    /\ client = "oracle"
    /\ Len(oracle_calls) > 0
    /\ solution = snapshot[oracle_calls[Len(oracle_calls)] + 1].sol
    /\ events # <<>>
    /\ events[Len(events)] = "call_ok"
    /\ last_reply # None
    /\ last_reply[1] \in YesReplies

\* a reuse after two failed service calls and a lower-case, padded yes
C9_Witness ==
  /\ outcome = "reused"
  /\ Persisted
  /\ Count(events, {"call_fail"}) = 2
  /\ last_reply = Some(<<" ","y","e","s","\n">>)

IsText(t) == DOMAIN t = 1..Len(t) /\ \A i \in 1..Len(t) : t[i] \in STRING

\* C10: every started request reaches its decision, the decided solution
\* is a text, and the request makes at most 3*(n+1) service calls for a
\* snapshot of n entries: at most n+1 client calls (n of the oracle, one
\* of the generator), each of at most 3 service calls.
C10_Terminates ==
  /\ [](/\ ServiceCalls(events) <= 3
        /\ Len(oracle_calls) <= Len(snapshot)
        /\ gen_calls <= 1)
  /\ [](Resolved => IsText(solution))
  /\ (InRequest ~> Resolved)

\* a request on two candidates that found no match and whose call of
\* generate_solution failed three times
C10_Witness ==
  /\ Persisted
  /\ Len(snapshot) = 2
  /\ verdicts = <<FALSE, FALSE>>
  /\ GeneratorReturned
  /\ Count(events, {"call_fail"}) = 3
  /\ solution = NoSolutionText
\* C11: when a call of check_incident_similarity got a reply text, it
\* returns True exactly when the reply is YES up to case and surrounding
\* whitespace, and the reply is the last thing the call did: no further
\* service call, log record or sleep follows it.
C11_VerdictIffYes ==
  (OracleReturned /\ last_reply # None) =>
    /\ verdicts[Len(verdicts)] = (last_reply[1] \in YesReplies)
    /\ Count(events, {"call_ok"}) = 1
    /\ events[Len(events)] = "call_ok"
    /\ Count(events, {"ERROR"}) = 0

\* a reply that is almost YES, judged False at the first attempt
C11_Witness ==
  /\ OracleReturned
  /\ last_reply = Some(<<"Y","E","S",".">>)
  /\ verdicts[Len(verdicts)] = FALSE
  /\ events = <<"call_ok">>
  /\ pc = "scan"
\* the candidate check_incident_similarity was called for in call k
Evaluated(k) == snapshot[oracle_calls[k] + 1]

\* C12: in every scan, of either caller, no candidate is evaluated after a
\* candidate of strictly lower priority.
C12_ScanInPriorityOrder ==
  \A i \in 1..Len(oracle_calls) : \A j \in (i + 1)..Len(oracle_calls) :
     Evaluated(i).priority >= Evaluated(j).priority
\* C13: the candidates of a request are those of the list it was given when
\* it started, in that order: rows other requests append to the table while
\* it runs are never evaluated and never reused by it.
C13_SnapshotIsFixed ==
  /\ [][(InRequest /\ pc' # "idle") => snapshot' = snapshot]_vars
  /\ [](InRequest =>
          /\ existing_incidents = snapshot
          /\ \A k \in 1..Len(oracle_calls) : oracle_calls[k] < Len(snapshot))
  /\ [](outcome = "reused" =>
          \E i \in 1..Len(snapshot) : solution = snapshot[i].sol)

\* a request of get_solution that asked about its one candidate and then
\* generated, while another request added a row to the table
C13_Witness ==
  /\ caller = "http"
  /\ pc = "persist"
  /\ Len(snapshot) = 1
  /\ Len(store) = 2
  /\ oracle_calls = <<0>>
  /\ verdicts = <<FALSE>>
  /\ outcome = "generated"
\* the level noted for a text of ClassifyWords
LevelOf(text) == (CHOOSE w \in ClassifyWords : w.text = text).level

MaxOf(a, b) == IF a >= b THEN a ELSE b

\* C14: calculate_priority returns the level of the highest tier that has
\* a keyword in one of the two fields, whatever the case of the letters
\* and whatever lower-tier keywords are there too, 1 when no tier has
\* one, and always a level in 1..5.
C14_HighestTierWins ==
  pc = "classified" =>
    /\ priority \in 1..5
    /\ priority = MaxOf(LevelOf(incident.description),
                        LevelOf(incident.detailed_description))

\* a priority-5 keyword in the first field, a priority-3 one in the second
C14_Witness ==
  /\ pc = "classified"
  /\ incident.description = <<"O","u","t","a","g","e">>
  /\ incident.detailed_description = <<"d","e","b","u","g">>
  /\ priority = 5
\* C15: no step changes or removes a row of the table; a request of
\* get_solution changes the table in one step only, after its solution is
\* decided, and that step appends one row with the decided solution and
\* the priority of the new incident's own two fields.
C15_OneAppendPerRequest ==
  [][ /\ Len(store') >= Len(store)
      /\ SubSeq(store', 1, Len(store)) = store
      /\ caller' = "http" =>
           IF pc = "persist" /\ caller = "http"
             THEN /\ Resolved
                  /\ store' =
                       Append(store,
                              Row(incident.description,
                                  incident.detailed_description, solution,
                                  calculate_priority(
                                    incident.description,
                                    incident.detailed_description)))
             ELSE store' = store ]_vars

\* a request of get_solution that reused the solution of the priority-0
\* row and was saved with its own priority 5
C15_Witness ==
  /\ Persisted
  /\ caller = "http"
  /\ outcome = "reused"
  /\ solution = RowLow.sol
  /\ Len(store) = Len(snapshot) + 1
  /\ store[Len(store)].sol = RowLow.sol
  /\ store[Len(store)].priority = 5
\* C17: in the list a request scans, a row with a priority above 5 comes
\* before every row with a priority in 1..5 and a row with a priority
\* below 1 after them, and when such a row is the first candidate with a
\* True verdict its solution is the one reused.
C17_OutOfRangeTolerated ==
  /\ \A i \in 1..Len(snapshot) : \A j \in 1..Len(snapshot) :
        (/\ snapshot[j].priority \in 1..5
         /\ \/ snapshot[i].priority > 5 /\ j < i
            \/ snapshot[i].priority < 1 /\ i < j) => FALSE
  /\ (/\ Resolved
      /\ SomeTrueVerdict
      /\ snapshot[FirstTrueVerdict].priority \notin 1..5) =>
        /\ outcome = "reused"
        /\ solution = snapshot[FirstTrueVerdict].sol
\* C18: a call of check_incident_similarity that used up its attempts
\* counts as a False verdict and the scan goes on with the next candidate;
\* a True verdict for a later candidate still ends the request reused, and
\* generate_solution is called only after every candidate was evaluated.
C18_ExhaustionDoesNotAbort ==
  /\ (OracleReturned /\ Count(events, {"ERROR"}) > 0) =>
       /\ verdicts[Len(verdicts)] = FALSE
       /\ idx = Len(verdicts)
       /\ pc = "decide" => idx = Len(snapshot)
  /\ (Resolved /\ SomeTrueVerdict) => outcome = "reused"
  /\ (snapshot # <<>> /\ pc \in {"generate_call", "generate"}) =>
       Len(verdicts) = Len(snapshot)
\* an incident of a batch is being resolved or was just resolved
InBatchRequest == caller = "batch" /\ (InRequest \/ pc = "persist")

\* a batch on an empty table never calls check_incident_similarity and
\* generates every solution
ColdBatchGenerates ==
  (InBatchRequest /\ db_empty) =>
    /\ snapshot = <<>>
    /\ oracle_calls = <<>>
    /\ pc = "persist" => outcome = "generated"

\* position in the scanned list of the k-th incident resolved by the batch
BatchPosition(k) == Len(snapshot) - Len(new_records) + k

\* C19 as claimed: a batch on an empty table never calls
\* check_incident_similarity and generates every solution; in a batch on a
\* non-empty table every incident resolved earlier is evaluated as a
\* candidate for every later incident.
C19_EarlierIncidentsEvaluated ==
  /\ ColdBatchGenerates
  /\ (InBatchRequest /\ ~db_empty /\ pc = "persist") =>
       \A k \in 1..Len(new_records) :
          \E c \in 1..Len(oracle_calls) :
             oracle_calls[c] + 1 = BatchPosition(k)

\* C19 amended: a batch on an empty table never calls
\* check_incident_similarity and generates every solution; in a batch on a
\* non-empty table the incidents resolved earlier are the last entries of
\* the list scanned for every later incident, in the order they were
\* resolved, and all of them are evaluated unless a candidate before them
\* got a True verdict, which ends the scan.
C19_EarlierIncidentsAreCandidates ==
  /\ ColdBatchGenerates
  /\ (InBatchRequest /\ ~db_empty) =>
       /\ Len(snapshot) > Len(new_records)
       /\ SubSeq(snapshot, BatchPosition(1), Len(snapshot)) = new_records
       /\ pc = "persist" =>
            IF SomeTrueVerdict
              THEN oracle_calls = FirstPositions(FirstTrueVerdict)
              ELSE oracle_calls = FirstPositions(Len(snapshot))

\* the second incident of a batch on a one-row table reuses the solution
\* the batch generated for its first incident
C19_Witness ==
  /\ caller = "batch"
  /\ ~db_empty
  /\ pc = "persist"
  /\ Len(new_records) = 1
  /\ Len(snapshot) = 2
  /\ verdicts = <<FALSE, TRUE>>
  /\ outcome = "reused"
  /\ solution = new_records[1].sol
====
